---- MODULE Spec2Model ----
(***************************************************************************)
(* Model of scripts/ai-analysis/mvv_data_processor.py: the MVVDataProcessor *)
(* object (load_data, preprocess_mvv_data, get_analysis_ready_data,         *)
(* save_processed_data) and the driver main().                              *)
(*                                                                          *)
(* Python str values are sequences of one-character strings.  A cell of the *)
(* DataFrame is a tagged record: NaN (an empty CSV cell), Str(s) (a cell of *)
(* an object column) or Flt(m, e) (the float m / 10^e of a numeric column). *)
(***************************************************************************)
EXTENDS Integers, Sequences, FiniteSets, TLC

\* ------------------------------------------------------------------ bounds
MaxRows  == 2   \* rows of the CSV file
MaxLen   == 2   \* characters of a mission / vision / values cell
MaxStamp == 2   \* bundles stamped by get_analysis_ready_data in one behaviour
MaxRuns  == 2   \* completed runs of preprocess_mvv_data in one behaviour

\* ------------------------------------------------------------------ values
None == [t |-> "None"]
NaN  == [t |-> "nan"]
Str(s) == [t |-> "str", s |-> s]
Flt(m, e) == [t |-> "float", m |-> m, e |-> e]
Raise(exc) == [t |-> "raise", exc |-> exc]

IsRaise(x) == x.t = "raise"

\* pd.isna on a scalar cell
IsNa(x) == x.t = "nan"

Whitespace == {" "}
Digits == <<"0", "1", "2", "3", "4", "5", "6", "7", "8", "9">>
DigitSet == {Digits[i] : i \in 1..10}
DigitVal(c) == (CHOOSE i \in 1..10 : Digits[i] = c) - 1

\* ------------------------------------------------------------------ str
\* str.strip(): drop leading, then trailing, whitespace
RECURSIVE LStrip(_)
LStrip(s) ==
    IF s = <<>> THEN <<>>
    ELSE IF Head(s) \in Whitespace THEN LStrip(Tail(s)) ELSE s

RECURSIVE RStrip(_)
RStrip(s) ==
    IF s = <<>> THEN <<>>
    ELSE IF s[Len(s)] \in Whitespace THEN RStrip(SubSeq(s, 1, Len(s) - 1)) ELSE s

Strip(s) == RStrip(LStrip(s))

\* str.replace(old, new) for a one-character old
Replace(s, old, new) == [i \in 1..Len(s) |-> IF s[i] = old THEN new ELSE s[i]]

\* sep.join(parts)
RECURSIVE Join(_, _)
Join(sep, parts) ==
    IF parts = <<>> THEN <<>>
    ELSE IF Len(parts) = 1 THEN parts[1]
    ELSE parts[1] \o sep \o Join(sep, Tail(parts))

\* float(x) on a str: surrounding whitespace is ignored, then an unsigned
\* decimal literal (digits with at most one point, at least one digit) is
\* read; anything else raises ValueError.
RECURSIVE Mantissa(_, _)
Mantissa(s, acc) ==
    IF s = <<>> THEN acc
    ELSE IF Head(s) = "." THEN Mantissa(Tail(s), acc)
    ELSE Mantissa(Tail(s), 10 * acc + DigitVal(Head(s)))

RECURSIVE FracDigits(_)
FracDigits(s) ==
    IF s = <<>> THEN 0
    ELSE IF Head(s) = "." THEN Len(s) - 1
    ELSE FracDigits(Tail(s))

ParseFloat(s) ==
    LET t == Strip(s)
        points == Cardinality({i \in 1..Len(t) : t[i] = "."})
        digits == Cardinality({i \in 1..Len(t) : t[i] \in DigitSet})
    IN  IF /\ \A i \in 1..Len(t) : t[i] \in DigitSet \cup {"."}
           /\ points <= 1
           /\ digits >= 1
        THEN Flt(Mantissa(t, 0), FracDigits(t))
        ELSE Raise("ValueError")

\* float(x) on a cell: a float (nan included) is returned as it is
PyFloat(x) == IF x.t = "str" THEN ParseFloat(x.s) ELSE x

\* ------------------------------------------------------------------ rows
\* row.get(key, default) on a row of the DataFrame
Get(row, key, default) == IF key \in DOMAIN row THEN row[key] ELSE default

\* the character U+3001 (IDEOGRAPHIC COMMA) that _clean_text writes for ";"
IdeographicComma == "U+3001"

\* MVVDataProcessor._clean_text
_clean_text(text) ==
    IF IsNa(text) \/ text = Str(<<>>) THEN <<>>
    ELSE LET t == Strip(text.s)
         IN  IF \E i \in 1..Len(t) : t[i] = ";" THEN Replace(t, ";", IdeographicComma) ELSE t

LabelMission == <<"M", "i", "s", "s", "i", "o", "n", ":", " ">>
LabelVision  == <<"V", "i", "s", "i", "o", "n", ":", " ">>
LabelValues  == <<"V", "a", "l", "u", "e", "s", ":", " ">>
Separator    == <<" ", "|", " ">>

\* mutant: the values segment is appended without the test `if values`
CombinedAlwaysValues(mission, vision, values) ==
    LET p0 == <<>>
        p1 == IF mission # <<>> THEN Append(p0, LabelMission \o mission) ELSE p0
        p2 == IF vision # <<>> THEN Append(p1, LabelVision \o vision) ELSE p1
        p3 == Append(p2, LabelValues \o values)
    IN  Join(Separator, p3)

\* MVVDataProcessor._create_combined_mvv
_create_combined_mvv(mission, vision, values) ==
    LET p0 == <<>>
        p1 == IF mission # <<>> THEN Append(p0, LabelMission \o mission) ELSE p0
        p2 == IF vision # <<>> THEN Append(p1, LabelVision \o vision) ELSE p1
        p3 == IF values # <<>> THEN Append(p2, LabelValues \o values) ELSE p2
    IN  Join(Separator, p3)

\* mutant: `a or b`
PyOr(a, b) == IF a = <<>> THEN b ELSE a

\* Python's `a and b` on str values: a when a is falsy (empty), else b
PyAnd(a, b) == IF a = <<>> THEN a ELSE b
\* bool(s) of a str
PyBool(s) == s # <<>>

\* the loop body of preprocess_mvv_data for the row at 0-based index idx:
\* the company_data dict, or the exception the try block catches
ProcessRow(idx, row) ==
    LET mission == _clean_text(Get(row, "mission", Str(<<>>)))
        vision  == _clean_text(Get(row, "vision", Str(<<>>)))
        values  == _clean_text(Get(row, "values", Str(<<>>)))
        combined_mvv == _create_combined_mvv(mission, vision, values)
        cm == PyFloat(Get(row, "missionConfidence", Flt(0, 1)))
        cv == PyFloat(Get(row, "visionConfidence", Flt(0, 1)))
        cs == PyFloat(Get(row, "valuesConfidence", Flt(0, 1)))
    IN  IF IsRaise(cm) THEN cm
        ELSE IF IsRaise(cv) THEN cv
        ELSE IF IsRaise(cs) THEN cs
        ELSE [t |-> "company",
              id |-> idx + 1,
              name |-> Get(row, "companyName", Str(<<>>)),
              website |-> Get(row, "website", Str(<<>>)),
              category |-> Get(row, "category", Str(<<>>)),
              mission |-> mission,
              vision |-> vision,
              values |-> values,
              combined_mvv |-> combined_mvv,
              confidence_scores |-> [mission |-> cm, vision |-> cv, values |-> cs],
              extraction_source |-> Get(row, "extractionSource", Str(<<>>)),
              extracted_from |-> Get(row, "extractedFrom", Str(<<>>)),
              has_complete_mvv |-> PyBool(PyAnd(PyAnd(mission, vision), values))]

\* mutant: a row that raises ends the loop (break)
RECURSIVE PreprocessLoopBreak(_, _, _)
PreprocessLoopBreak(rows, idx, acc) ==
    IF idx >= Len(rows) THEN acc
    ELSE LET company_data == ProcessRow(idx, rows[idx + 1])
         IN  IF IsRaise(company_data)
             THEN acc
             ELSE PreprocessLoopBreak(rows, idx + 1, Append(acc, company_data))

\* the for loop of preprocess_mvv_data from 0-based index idx on, with
\* processed_companies = acc so far: a row that raises is skipped (continue)
RECURSIVE PreprocessLoop(_, _, _)
PreprocessLoop(rows, idx, acc) ==
    IF idx >= Len(rows) THEN acc
    ELSE LET company_data == ProcessRow(idx, rows[idx + 1])
         IN  IF IsRaise(company_data)
             THEN PreprocessLoop(rows, idx + 1, acc)
             ELSE PreprocessLoop(rows, idx + 1, Append(acc, company_data))

\* mutant: the rows are appended to the list of the previous call
ProcessedCompaniesAccumulate(old, rows) ==
    PreprocessLoop(rows, 0, IF old = None THEN <<>> ELSE old.items)

\* processed_companies as preprocess_mvv_data builds it: a fresh list per call
ProcessedCompanies(old, rows) == PreprocessLoop(rows, 0, <<>>)

\* ------------------------------------------------------------------ bundle
\* the list comprehension of get_analysis_ready_data
CompleteOnly(processed) == SelectSeq(processed, LAMBDA c : c.has_complete_mvv)

\* by_category is a dict: the sequence of its (key, list) items in insertion
\* order
HasKey(by_category, k) == \E i \in 1..Len(by_category) : by_category[i].key = k

\* mutant: the list of an existing key is overwritten, not extended
GroupAddOverwrite(by_category, company) ==
    LET category == company.category
        d == IF HasKey(by_category, category) THEN by_category
             ELSE Append(by_category, [key |-> category, list |-> <<>>])
    IN  [i \in 1..Len(d) |->
            IF d[i].key = category
            THEN [d[i] EXCEPT !.list = <<company>>]
            ELSE d[i]]

\* mutant: the company is put at the front of its category's list
GroupAddFront(by_category, company) ==
    LET category == company.category
        d == IF HasKey(by_category, category) THEN by_category
             ELSE Append(by_category, [key |-> category, list |-> <<>>])
    IN  [i \in 1..Len(d) |->
            IF d[i].key = category
            THEN [d[i] EXCEPT !.list = <<company>> \o @]
            ELSE d[i]]

\* one pass of the grouping loop: create the key if new, then append
GroupAdd(by_category, company) ==
    LET category == company.category
        d == IF HasKey(by_category, category) THEN by_category
             ELSE Append(by_category, [key |-> category, list |-> <<>>])
    IN  [i \in 1..Len(d) |->
            IF d[i].key = category
            THEN [d[i] EXCEPT !.list = Append(@, company)]
            ELSE d[i]]

RECURSIVE GroupByCategory(_, _)
GroupByCategory(companies, by_category) ==
    IF companies = <<>> THEN by_category
    ELSE GroupByCategory(Tail(companies), GroupAdd(by_category, Head(companies)))

\* mutant: `self.processed_data is None`
NotProcessedIsNone(processed) == processed = None

\* `not self.processed_data`: None and the empty list are both falsy
NotProcessed(processed) == processed = None \/ processed.items = <<>>

\* MVVDataProcessor.get_analysis_ready_data at time now
get_analysis_ready_data(processed, now) ==
    IF NotProcessed(processed) THEN Raise("ValueError")
    ELSE LET complete_mvv_companies == CompleteOnly(processed.items)
             by_category == GroupByCategory(complete_mvv_companies, <<>>)
         IN  [t |-> "bundle",
              total_companies |-> Len(processed.items),
              complete_mvv_companies |-> Len(complete_mvv_companies),
              companies |-> complete_mvv_companies,
              by_category |-> by_category,
              categories |-> [i \in 1..Len(by_category) |-> by_category[i].key],
              processed_at |-> now]

\* ------------------------------------------------------------------ input
AllColumns ==
    {"companyName", "website", "category", "status", "mission", "vision",
     "values", "missionConfidence", "visionConfidence", "valuesConfidence",
     "extractionSource", "extractedFrom"}

\* the columns _print_basic_stats indexes with self.data[...]
StatsColumns == {"status", "category", "mission", "vision", "values"}

\* the header lines the model reads: complete, without the values column,
\* without the missionConfidence column
ColumnSets ==
    {AllColumns, AllColumns \ {"values"}, AllColumns \ {"missionConfidence"}}

\* a row of the file restricted to the columns of its header
RowOf(cols, category, mission, vision, values, cm, cv, cs) ==
    [c \in cols |->
        CASE c = "companyName" -> Str(<<"n">>)
          [] c = "website" -> NaN
          [] c = "category" -> category
          [] c = "status" -> Str(<<"c">>)
          [] c = "mission" -> mission
          [] c = "vision" -> vision
          [] c = "values" -> values
          [] c = "missionConfidence" -> cm
          [] c = "visionConfidence" -> cv
          [] c = "valuesConfidence" -> cs
          [] c = "extractionSource" -> Str(<<"w">>)
          [] c = "extractedFrom" -> NaN]

Categories == {Str(<<"A">>), Str(<<"B">>)}
Parseable == Str(<<"0", ".", "9">>)
Unparseable == Str(<<"a", "b", "c">>)

\* the rows of the pipeline runs: complete or without values, in one of two
\* categories, with a missionConfidence that float() reads or rejects
PipelineRows(cols) ==
    {RowOf(cols, category, Str(<<"m">>), Str(<<"v">>), values, cm, Flt(8, 1), Flt(7, 1)) :
        category \in Categories,
        values \in {NaN, Str(<<"a", ";", "b">>)},
        cm \in {Parseable, Unparseable}}

\* the rows of the one-row runs.  A text cell is empty (NaN), blank or a
\* letter (ShapeCells), or any string of at most MaxLen characters of blank,
\* semicolon and letter (TextCells); a row has one of mission, vision and
\* values from TextCells and the other two from ShapeCells.  A confidence
\* cell is empty, a float, or a string float() reads or rejects.
TextAlphabet == {" ", ";", "a"}
Texts == UNION {[1..n -> TextAlphabet] : n \in 1..MaxLen}
TextCells == {NaN} \cup {Str(s) : s \in Texts}
ShapeCells == {NaN, Str(<<" ">>), Str(<<"a">>)}
ConfidenceCells ==
    {NaN, Flt(9, 1), Parseable, Unparseable, Str(<<" ", "1">>), Str(<<".">>)}

TextTriples ==
    (TextCells \X ShapeCells \X ShapeCells)
        \cup (ShapeCells \X TextCells \X ShapeCells)
        \cup (ShapeCells \X ShapeCells \X TextCells)

TextRows(cols) ==
    {RowOf(cols, Str(<<"A">>), mvv[1], mvv[2], mvv[3], Flt(9, 1), Flt(8, 1), Flt(7, 1)) :
        mvv \in TextTriples}

ConfidenceRows(cols) ==
    {RowOf(cols, Str(<<"A">>), Str(<<"m">>), Str(<<"v">>), Str(<<"s">>), cm, cv, cs) :
        cm \in ConfidenceCells, cv \in ConfidenceCells, cs \in ConfidenceCells}

Frame(cols, rows) == [t |-> "frame", cols |-> cols, rows |-> rows]
List(items) == [t |-> "list", items |-> items]

FilesOver(cols, rowset, maxrows) ==
    {Frame(cols, rows) : rows \in UNION {[1..n -> rowset] : n \in 0..maxrows}}

RowFiles ==
    UNION {{Frame(cols, <<row>>) : row \in TextRows(cols) \cup ConfidenceRows(cols)} :
              cols \in ColumnSets}

PipelineFiles == UNION {FilesOver(cols, PipelineRows(cols), MaxRows) : cols \in ColumnSets}

\* ------------------------------------------------------------------ state
VARIABLES
    csv,             \* the content of the file at csv_path
    data,            \* self.data
    processed_data,  \* self.processed_data
    file,            \* the content of the file at output_path
    clock,           \* datetime.now(), as the number of stamps read so far
    runs,            \* completed calls of preprocess_mvv_data
    call,            \* the last method call and the exception it raised
    ret,             \* the bundles get_analysis_ready_data returned last
    pc,              \* "api" for a caller of the class, else main's position
    ran,             \* the methods main has called, in order
    exit_status      \* the status of the process running main, -1 while running

vars == <<csv, data, processed_data, file, clock, runs, call, ret, pc, ran, exit_status>>

NoFile == [t |-> "absent"]
Truncated == [t |-> "truncated"]
NoCall == [op |-> "none", exc |-> "none"]

\* the last two entries of a history
Last2(h) == IF Len(h) <= 2 THEN h ELSE SubSeq(h, Len(h) - 1, Len(h))

\* ------------------------------------------------------------------ methods
\* MVVDataProcessor.load_data; readable is whether pd.read_csv succeeds.
\* self.data is assigned before _print_basic_stats runs.
load_data(readable) ==
    /\ data' = IF readable THEN csv ELSE data
    /\ call' = [op |-> "load_data",
                exc |-> IF ~readable THEN "OSError"
                        ELSE IF ~(StatsColumns \subseteq csv.cols) THEN "KeyError"
                        ELSE IF Len(csv.rows) = 0 THEN "ZeroDivisionError"
                        ELSE "none"]
    /\ UNCHANGED <<csv, processed_data, file, clock, runs, ret>>

\* MVVDataProcessor.preprocess_mvv_data
preprocess_mvv_data ==
    /\ runs < MaxRuns
    /\ IF data = None
       THEN /\ call' = [op |-> "preprocess_mvv_data", exc |-> "AttributeError"]
            /\ UNCHANGED <<processed_data, runs>>
       ELSE /\ processed_data' = List(ProcessedCompanies(processed_data, data.rows))
            /\ runs' = runs + 1
            /\ call' = [op |-> "preprocess_mvv_data", exc |-> "none"]
    /\ UNCHANGED <<csv, data, file, clock, ret>>

\* the call of get_analysis_ready_data, by a caller or by save_processed_data
Aggregate ==
    LET analysis_data == get_analysis_ready_data(processed_data, clock)
    IN  /\ clock < MaxStamp
        /\ IF IsRaise(analysis_data)
           THEN UNCHANGED <<clock, ret>>
           ELSE /\ clock' = clock + 1
                /\ ret' = Last2(Append(ret, [bundle |-> analysis_data, run |-> runs]))

\* a call of MVVDataProcessor.get_analysis_ready_data
CallAggregate ==
    /\ Aggregate
    /\ LET analysis_data == get_analysis_ready_data(processed_data, clock)
       IN  call' = [op |-> "get_analysis_ready_data",
                    exc |-> IF IsRaise(analysis_data) THEN analysis_data.exc ELSE "none"]
    /\ UNCHANGED <<csv, data, processed_data, file, runs>>

\* MVVDataProcessor.save_processed_data; written is how far the write gets:
\* "all", "open" (open() fails, the file is untouched) or "dump" (the file is
\* opened, so truncated, and the write fails)
save_processed_data(written) ==
    LET analysis_data == get_analysis_ready_data(processed_data, clock)
    IN  /\ Aggregate
        /\ IF IsRaise(analysis_data)
           THEN /\ call' = [op |-> "save_processed_data", exc |-> analysis_data.exc]
                /\ UNCHANGED file
           ELSE /\ file' = CASE written = "all" -> analysis_data
                             [] written = "open" -> file
                             [] written = "dump" -> Truncated
                /\ call' = [op |-> "save_processed_data",
                            exc |-> IF written = "all" THEN "none" ELSE "OSError"]
        /\ UNCHANGED <<csv, data, processed_data, runs>>

WriteOutcomes == {"all", "open", "dump"}

\* ------------------------------------------------------------------ main
\* mutant: the exception is swallowed and main goes on
TryNextIgnore(exc, next) == next

\* the try block of main: an exception of a call goes to the except clause
TryNext(exc, next) == IF exc = "none" THEN next ELSE "except"

\* what main returns from its except clause, and at its end
ReturnOnFailure == 1
ReturnOnSuccess == 0

\* os.makedirs(..., exist_ok=True), outside the try block: its exception
\* leaves main uncaught and the interpreter exits with status 1
MainMakedirs ==
    /\ pc = "makedirs"
    /\ \E created \in BOOLEAN :
          IF created
          THEN /\ pc' = "load"
               /\ UNCHANGED <<call, exit_status>>
          ELSE /\ pc' = "exited"
               /\ call' = [op |-> "makedirs", exc |-> "OSError"]
               /\ exit_status' = 1
    /\ UNCHANGED <<csv, data, processed_data, file, clock, runs, ret, ran>>

MainLoad ==
    /\ pc = "load"
    /\ \E readable \in BOOLEAN : load_data(readable)
    /\ ran' = Append(ran, "load_data")
    /\ pc' = TryNext(call'.exc, "preprocess")
    /\ UNCHANGED exit_status

MainPreprocess ==
    /\ pc = "preprocess"
    /\ preprocess_mvv_data
    /\ ran' = Append(ran, "preprocess_mvv_data")
    /\ pc' = TryNext(call'.exc, "save")
    /\ UNCHANGED exit_status

MainSave ==
    /\ pc = "save"
    /\ \E written \in WriteOutcomes : save_processed_data(written)
    /\ ran' = Append(ran, "save_processed_data")
    /\ pc' = TryNext(call'.exc, "epilogue")
    /\ UNCHANGED exit_status

\* the except clause of main
MainExcept ==
    /\ pc = "except"
    /\ pc' = "exited"
    /\ exit_status' = ReturnOnFailure
    /\ UNCHANGED <<csv, data, processed_data, file, clock, runs, call, ret, ran>>

\* the end of main
MainReturn ==
    /\ pc = "epilogue"
    /\ pc' = "exited"
    /\ exit_status' = ReturnOnSuccess
    /\ UNCHANGED <<csv, data, processed_data, file, clock, runs, call, ret, ran>>

\* ------------------------------------------------------------------ callers
\* a program that imports the class calls its methods in any order
ApiLoad ==
    /\ pc = "api"
    /\ \E readable \in BOOLEAN : load_data(readable)
    /\ UNCHANGED <<pc, ran, exit_status>>

ApiPreprocess ==
    /\ pc = "api"
    /\ preprocess_mvv_data
    /\ UNCHANGED <<pc, ran, exit_status>>

ApiAggregate ==
    /\ pc = "api"
    /\ CallAggregate
    /\ UNCHANGED <<pc, ran, exit_status>>

ApiSave ==
    /\ pc = "api"
    /\ \E written \in WriteOutcomes : save_processed_data(written)
    /\ UNCHANGED <<pc, ran, exit_status>>

\* ------------------------------------------------------------------ spec
\* MVVDataProcessor.__init__, in main or in a caller of the class
InitOn(files, callers) ==
    /\ csv \in files
    /\ data = None
    /\ processed_data = None
    /\ file = NoFile
    /\ clock = 0
    /\ runs = 0
    /\ call = NoCall
    /\ ret = <<>>
    /\ pc \in callers
    /\ ran = <<>>
    /\ exit_status = -1

Init == InitOn(PipelineFiles, {"makedirs", "api"})

Next ==
    \/ MainMakedirs
    \/ MainLoad
    \/ MainPreprocess
    \/ MainSave
    \/ MainExcept
    \/ MainReturn
    \/ ApiLoad
    \/ ApiPreprocess
    \/ ApiAggregate
    \/ ApiSave

Spec == Init /\ [][Next]_vars

\* one row of every shape, transformed by a caller of the class
InitRow == InitOn(RowFiles, {"api"})

NextRow ==
    \/ ApiLoad
    \/ ApiPreprocess

SpecRow == InitRow /\ [][NextRow]_vars

\* ------------------------------------------------------------------ claims
Bundles == {ret[i].bundle : i \in 1..Len(ret)}
Items == IF processed_data = None THEN <<>> ELSE processed_data.items

RECURSIVE SumOfLengths(_)
SumOfLengths(by_category) ==
    IF by_category = <<>> THEN 0
    ELSE Len(Head(by_category).list) + SumOfLengths(Tail(by_category))

\* C1: in every bundle get_analysis_ready_data returned,
\* complete_mvv_companies equals the length of companies and the sum of the
\* lengths of the lists of by_category.
C1_CountsAgree ==
    \A b \in Bundles :
        /\ b.complete_mvv_companies = Len(b.companies)
        /\ b.complete_mvv_companies = SumOfLengths(b.by_category)

\* C1 witness: a returned bundle of two processed records, one of them complete
C1_Witness ==
    \E b \in Bundles :
        /\ b.total_companies = 2
        /\ b.complete_mvv_companies = 1
        /\ Len(b.by_category) = 1

Positions(seq, x) == {i \in 1..Len(seq) : seq[i] = x}

\* C2: in every returned bundle, companies is the processed records with
\* has_complete_mvv, in input order, and by_category partitions it: the keys
\* are distinct, the list of a key is the subsequence of companies of that
\* category, and every company is in exactly one list, once.
C2_Partition ==
    \A b \in Bundles :
        /\ \A i \in 1..Len(b.companies) : b.companies[i].has_complete_mvv
        /\ \A i, j \in 1..Len(b.companies) :
              i < j => b.companies[i].id < b.companies[j].id
        /\ \A i \in 1..Len(Items) :
              Items[i].has_complete_mvv => Positions(b.companies, Items[i]) # {}
        /\ \A i \in 1..Len(b.companies) : Positions(Items, b.companies[i]) # {}
        /\ \A k, l \in 1..Len(b.by_category) :
              b.by_category[k].key = b.by_category[l].key => k = l
        /\ \A k \in 1..Len(b.by_category) :
              b.by_category[k].list =
                  SelectSeq(b.companies, LAMBDA c : c.category = b.by_category[k].key)
        /\ \A i \in 1..Len(b.companies) :
              Cardinality({<<k, n>> \in (1..Len(b.by_category)) \X (1..Len(b.companies)) :
                              /\ n <= Len(b.by_category[k].list)
                              /\ b.by_category[k].list[n] = b.companies[i]}) = 1
        /\ \A k \in 1..Len(b.by_category) :
              \A n \in 1..Len(b.by_category[k].list) :
                  Positions(b.companies, b.by_category[k].list[n]) # {}

\* C2 witness: a returned bundle whose two companies share one category list
C2_Witness ==
    \E b \in Bundles :
        /\ Len(b.by_category) = 1
        /\ Len(b.by_category[1].list) = 2
        /\ b.by_category[1].list[1].id < b.by_category[1].list[2].id

\* the confidence columns and the key of confidence_scores each one fills
ConfidenceColumns == {"missionConfidence", "visionConfidence", "valuesConfidence"}
ScoreKey(col) ==
    CASE col = "missionConfidence" -> "mission"
      [] col = "visionConfidence" -> "vision"
      [] col = "valuesConfidence" -> "values"

Zero(x) == x.t = "float" /\ x.m = 0

\* a confidence cell that is absent (no column, or an empty cell) or that
\* float() cannot read
AbsentOrUnparseable(row, col) ==
    \/ col \notin DOMAIN row
    \/ IsNa(row[col])
    \/ IsRaise(PyFloat(row[col]))

\* C3 (as claimed): once preprocess_mvv_data has run, every row with an absent
\* or unparseable confidence field has its Processed Company, with that score
\* equal to 0.0.
C3_DefaultsToZero ==
    (processed_data # None) =>
        \A idx \in 0..(Len(data.rows) - 1) :
            \A col \in ConfidenceColumns :
                AbsentOrUnparseable(data.rows[idx + 1], col) =>
                    \E k \in 1..Len(Items) :
                        /\ Items[k].id = idx + 1
                        /\ Zero(Items[k].confidence_scores[ScoreKey(col)])

\* the environment let the run through: no read or write error
NoIOError == call.exc # "OSError"

\* C4 (as claimed): a run of main on a file without the values column, whose
\* rows all transform, ends with status 0 and one Processed Company per row,
\* each with values == "" and has_complete_mvv == false.
C4_MissingValuesColumn ==
    (/\ pc = "exited"
     /\ NoIOError
     /\ "values" \notin csv.cols
     /\ Len(csv.rows) > 0
     /\ \A i \in 1..Len(csv.rows) : ~IsRaise(ProcessRow(i - 1, csv.rows[i])))
    =>
    (/\ exit_status = 0
     /\ Len(Items) = Len(csv.rows)
     /\ \A k \in 1..Len(Items) :
           Items[k].values = <<>> /\ ~Items[k].has_complete_mvv)

Transforms(rows, idx) == ~IsRaise(ProcessRow(idx, rows[idx + 1]))

\* C5: after preprocess_mvv_data, processed_data holds exactly one entry per
\* row that transformed without error, the entry that row alone yields, in
\* input order; a row that raised has no entry and changes no other entry.
C5_FailureIsolation ==
    (processed_data # None) =>
        /\ \A i, j \in 1..Len(Items) : i < j => Items[i].id < Items[j].id
        /\ \A idx \in 0..(Len(data.rows) - 1) :
              IF Transforms(data.rows, idx)
              THEN Positions(Items, ProcessRow(idx, data.rows[idx + 1])) # {}
              ELSE \A k \in 1..Len(Items) : Items[k].id # idx + 1
        /\ Len(Items) = Cardinality({idx \in 0..(Len(data.rows) - 1) : Transforms(data.rows, idx)})

\* C5 witness: the first row raised and the second row has its entry
C5_Witness ==
    /\ processed_data # None
    /\ Len(data.rows) = 2
    /\ ~Transforms(data.rows, 0)
    /\ Len(Items) = 1
    /\ Items[1].id = 2

\* a raw text field that is absent, empty or whitespace-only
Blank(row, col) ==
    \/ col \notin DOMAIN row
    \/ IsNa(row[col])
    \/ \A i \in 1..Len(row[col].s) : row[col].s[i] \in Whitespace

\* C6: for every processed record, has_complete_mvv is true iff mission,
\* vision and values are all non-empty after cleaning, and an absent, empty
\* or whitespace-only field is cleaned to the empty string.
C6_CompleteFlag ==
    \A k \in 1..Len(Items) :
        LET c == Items[k]
            row == data.rows[c.id]
        IN  /\ c.has_complete_mvv <=>
                  (c.mission # <<>> /\ c.vision # <<>> /\ c.values # <<>>)
            /\ Blank(row, "mission") => c.mission = <<>>
            /\ Blank(row, "vision") => c.vision = <<>>
            /\ Blank(row, "values") => c.values = <<>>
            /\ (\E col \in {"mission", "vision", "values"} : Blank(row, col))
                  => ~c.has_complete_mvv

\* C6 witness: mission and vision are filled and the values cell is blanks only
C6_Witness ==
    \E k \in 1..Len(Items) :
        LET c == Items[k]
            row == data.rows[c.id]
        IN  /\ "values" \in DOMAIN row
            /\ row["values"] = Str(<<" ", " ">>)
            /\ c.mission # <<>>
            /\ c.vision # <<>>
            /\ ~c.has_complete_mvv

\* the combined text of C9, written out for each pattern of empty fields
ExpectedCombined(m, v, s) ==
    LET M == LabelMission \o m
        V == LabelVision \o v
        S == LabelValues \o s
        bar == <<" ", "|", " ">>
    IN  CASE m = <<>> /\ v = <<>> /\ s = <<>> -> <<>>
          [] m # <<>> /\ v = <<>> /\ s = <<>> -> M
          [] m = <<>> /\ v # <<>> /\ s = <<>> -> V
          [] m = <<>> /\ v = <<>> /\ s # <<>> -> S
          [] m # <<>> /\ v # <<>> /\ s = <<>> -> M \o bar \o V
          [] m # <<>> /\ v = <<>> /\ s # <<>> -> M \o bar \o S
          [] m = <<>> /\ v # <<>> /\ s # <<>> -> V \o bar \o S
          [] m # <<>> /\ v # <<>> /\ s # <<>> -> M \o bar \o V \o bar \o S

\* C9: the combined text of every processed record is the labelled segments
\* of its non-empty cleaned fields, in the order mission, vision, values,
\* joined by " | "; it is empty when all three are empty.
C9_CombinedText ==
    \A k \in 1..Len(Items) :
        Items[k].combined_mvv =
            ExpectedCombined(Items[k].mission, Items[k].vision, Items[k].values)

\* C9 witness: mission empty, vision and values filled:
\* "Vision: a | Values: a"
C9_Witness ==
    \E k \in 1..Len(Items) :
        /\ Items[k].mission = <<>>
        /\ Items[k].combined_mvv =
              <<"V", "i", "s", "i", "o", "n", ":", " ", "a", " ", "|", " ",
                "V", "a", "l", "u", "e", "s", ":", " ", "a">>

NoRecords == processed_data = None \/ Len(processed_data.items) = 0

\* C7: get_analysis_ready_data raises (ValueError) exactly when no record was
\* processed -- preprocess_mvv_data has not run, or it produced no record --
\* and save_processed_data then raises the same error and leaves the file
\* alone; otherwise a bundle is returned; no bundle returned or written has
\* total_companies == 0.
C7_EmptyPipelineGuard ==
    /\ call.op = "get_analysis_ready_data" =>
          /\ NoRecords <=> call.exc = "ValueError"
          /\ ~NoRecords <=> call.exc = "none"
          /\ ~NoRecords =>
                /\ ret # <<>>
                /\ ret[Len(ret)].bundle.processed_at = clock - 1
                /\ ret[Len(ret)].bundle.total_companies = Len(processed_data.items)
    /\ call.op = "save_processed_data" =>
          /\ NoRecords <=> call.exc = "ValueError"
          /\ ~NoRecords => call.exc \in {"none", "OSError"}
    /\ \A b \in Bundles : b.total_companies > 0
    /\ file.t = "bundle" => file.total_companies > 0
    /\ NoRecords => ret = <<>> /\ file = NoFile

\* C7 witness: preprocess_mvv_data ran, every row raised, and the call of
\* get_analysis_ready_data raised
C7_Witness ==
    /\ call = [op |-> "get_analysis_ready_data", exc |-> "ValueError"]
    /\ processed_data # None
    /\ processed_data.items = <<>>
    /\ Len(data.rows) > 0

MainOrder == <<"load_data", "preprocess_mvv_data", "save_processed_data">>
IsPrefix(p, q) == Len(p) <= Len(q) /\ \A i \in 1..Len(p) : p[i] = q[i]

\* the fatal failures: the output directory cannot be made, the load fails,
\* the aggregation finds no record, the write fails
FatalFailure ==
    \/ call = [op |-> "makedirs", exc |-> "OSError"]
    \/ call.op = "load_data" /\ call.exc \in {"OSError", "KeyError", "ZeroDivisionError"}
    \/ call.op = "save_processed_data" /\ call.exc = "ValueError" /\ NoRecords
    \/ call.op = "save_processed_data" /\ call.exc = "OSError"

\* C8: main calls load_data, preprocess_mvv_data and save_processed_data in
\* that order and stops at the first call that fails; the exit status is
\* non-zero exactly when a fatal failure occurred, the last call made being
\* the failed one, and zero when all three calls succeeded, whatever number
\* of rows was skipped as long as one was processed.
C8_ExitStatus ==
    /\ pc # "api" => IsPrefix(ran, MainOrder)
    /\ pc \notin {"api", "exited"} => exit_status = -1
    /\ pc = "exited" =>
          /\ exit_status \in {0, 1}
          /\ exit_status # 0 <=> FatalFailure
          /\ exit_status # 0 =>
                /\ call.exc # "none"
                /\ ran = <<>> \/ call.op = ran[Len(ran)]
                /\ ran = <<>> <=> call.op = "makedirs"
          /\ exit_status = 0 =>
                /\ ran = MainOrder
                /\ call = [op |-> "save_processed_data", exc |-> "none"]
                /\ StatsColumns \subseteq csv.cols
                /\ data = csv
                /\ Len(Items) > 0
                /\ file.t = "bundle"
                /\ file.total_companies = Len(Items)

\* C8 witness: main exited with status 0 after one of two rows was skipped
C8_Witness ==
    /\ pc = "exited"
    /\ exit_status = 0
    /\ Len(data.rows) = 2
    /\ Len(Items) = 1

WithoutStamp(b) == [b EXCEPT !.processed_at = 0]

\* C10: the bundles of two runs on the same input are equal in every field but
\* processed_at: a second preprocess_mvv_data replaces the result of the first.
C10_Idempotent ==
    /\ \A i, j \in 1..Len(ret) : WithoutStamp(ret[i].bundle) = WithoutStamp(ret[j].bundle)
    /\ \A i \in 1..Len(ret) :
          /\ ret[i].bundle.total_companies = Len(Items)
          /\ ret[i].bundle.total_companies <= Len(csv.rows)
    /\ file.t = "bundle" => \A i \in 1..Len(ret) : WithoutStamp(file) = WithoutStamp(ret[i].bundle)

\* C10 witness: a bundle of the first run of preprocess_mvv_data and a bundle
\* of the second, with different stamps
C10_Witness ==
    /\ Len(ret) = 2
    /\ ret[1].run = 1
    /\ ret[2].run = 2
    /\ ret[1].bundle.processed_at # ret[2].bundle.processed_at
    /\ ret[1].bundle.complete_mvv_companies > 0

====
